---- MODULE Spec2Model ----
(***************************************************************************)
(* Model of react-form-analytics: the analytics reducer                    *)
(* (utils/analyticsUtils: analyticsReducer, createInitialAnalyticsState)   *)
(* and the AnalyticsProvider that drives it (contexts/AnalyticsContext:    *)
(* idle timer, exportAnalytics, the unload beacon), and the error timer of *)
(* the field wrapper (components/TrackedFormField).                        *)
(*                                                                         *)
(* Conventions: JavaScript null is Null (times) or "none" (exportReason);  *)
(* uuidv4() is a fresh number taken from the counter uuid; Date.now() is   *)
(* the variable now.                                                       *)
(***************************************************************************)
EXTENDS Integers, Sequences, FiniteSets, TLC

\* ------------------------------------------------------------------ bounds
MaxEvents == 4
MaxSessions == 2
MaxCalls == 2
MaxTime == 605000

\* ------------------------------------------------------- program constants
Null == -1
IDLE_TIMEOUT == 600000
ERROR_PERSISTENCE_THRESHOLD == 60000

\* ------------------------------------------------------ inputs of the model
\* Field identifiers of the form schema, and one identifier outside of it.
FormFields == {"email", "name"}
UnknownField == "phone"
Messages == {"Invalid email address", "Required"}
\* Section identifiers a host passes as the tabs prop.
ConfiguredTabs == {"personal", "payment", "experience"}
\* Section identifiers TabChange is called with.
TabIds == ConfiguredTabs \cup {"default"}
\* Instants at which events happen (milliseconds since the page's time origin).
TimePoints == {0, 5000, 12000, 20000}
\* An instant later than the first idle deadline.
LatePoints == {IDLE_TIMEOUT + 1}
\* The field a TrackedFormField is mounted for (its name prop), and the
\* instants at which its form changes.
FieldName == "email"
FieldPoints == {5000, ERROR_PERSISTENCE_THRESHOLD, ERROR_PERSISTENCE_THRESHOLD + 5000}

\* The session record, the clock and the uuid source.
VARIABLES analytics, now, uuid
\* Bookkeeping of the reducer's applications (see SpecReducer).
VARIABLES last, same, nEvents, thrown, active, dwell, phase, t0
\* The provider (see Spec).
VARIABLES view, mountView, dirty, idleDeadline, timers, lastActivityAt,
          formAlreadySubmitted, inflight, wire, delivered, downloads, terminals,
          triggers, unloaded
\* The field wrapper (see SpecField).
VARIABLES formError, fieldDirty, errorTimer, errorSince
\* The life of the components (see Spec, SpecScope); cancelled holds the
\* kinds of pending timeouts ("idle", "error") that an unmounting cleared.
VARIABLES tabsProp, renders, mounted, fieldMounted, cancelled

hvars == <<same, thrown, active, dwell, phase, t0>>
rvars == <<last, hvars>>
cvars == <<view, mountView, dirty, idleDeadline, timers, lastActivityAt,
           formAlreadySubmitted, inflight, wire, delivered, downloads, terminals,
           triggers, unloaded>>
fvars == <<formError, fieldDirty, errorTimer, errorSince>>
lvars == <<tabsProp, renders, mounted, fieldMounted, cancelled>>
vars == <<analytics, now, uuid, nEvents, rvars, cvars, fvars, lvars>>

\* ------------------------------------------------------------------ helpers
Range(s) == {s[i] : i \in 1..Len(s)}

RECURSIVE SumOver(_, _)
SumOver(f, S) == IF S = {} THEN 0
                 ELSE LET x == CHOOSE y \in S : TRUE
                      IN f[x] + SumOver(f, S \ {x})

\* ------------------------------------------------------------- the reducer
createInitialFieldAnalytics(fieldId) ==
    [id |-> fieldId, validationErrors |-> <<>>]

createInitialTabAnalytics ==
    [visits |-> 0, totalTimeSpent |-> 0, lastVisitTime |-> Null, lastVisitedAt |-> Null]

createInitialAnalyticsState(formFields, tabIds, id, n) ==
    [sessionId |-> id,
     formStartTime |-> n,
     formEndTime |-> Null,
     formCompletionTime |-> Null,
     fields |-> [f \in formFields |-> createInitialFieldAnalytics(f)],
     tabs |-> [t \in tabIds |-> createInitialTabAnalytics],
     formSubmitted |-> FALSE,
     formAbandoned |-> FALSE,
     validationErrorCount |-> 0,
     exportReason |-> "none"]

\* The reducer reads state.fields[action.field].validationErrors: for a field
\* that is not a key of state.fields this is a property read of undefined,
\* a TypeError.
ReducerThrows(state, action) ==
    /\ action.type = "VALIDATION_ERROR"
    /\ action.field \notin DOMAIN state.fields

\* Mutants of ReduceValidationError: the includes() test left out of the list
\* update, and left out of the counter update.
ReduceValidationErrorAppendsAgain(state, field, error) ==
    [state EXCEPT
       !.fields[field].validationErrors = Append(@, error),
       !.validationErrorCount =
           IF error \in Range(state.fields[field].validationErrors) THEN @ ELSE @ + 1]

ReduceValidationErrorCountsAgain(state, field, error) ==
    [state EXCEPT
       !.fields[field].validationErrors =
           IF error \in Range(@) THEN @ ELSE Append(@, error),
       !.validationErrorCount = @ + 1]

ReduceValidationError(state, field, error) ==
    LET isExistingError == error \in Range(state.fields[field].validationErrors)
    IN [state EXCEPT
          !.fields[field].validationErrors =
              IF isExistingError THEN @ ELSE Append(@, error),
          !.validationErrorCount =
              IF isExistingError THEN @ ELSE @ + 1]

\* A TAB_CHANGE that leaves the other sections as they are.
ReduceTabChangeKeepsOthers(state, tab, n) ==
    LET target == IF tab \in DOMAIN state.tabs THEN state.tabs[tab]
                  ELSE createInitialTabAnalytics
    IN [state EXCEPT !.tabs =
          [t \in DOMAIN state.tabs \cup {tab} |->
             IF t = tab
             THEN [target EXCEPT !.visits = @ + 1, !.lastVisitTime = n, !.lastVisitedAt = n]
             ELSE state.tabs[t]]]

ReduceTabChange(state, tab, n) ==
    LET closed == [t \in DOMAIN state.tabs |->
                     IF t # tab /\ state.tabs[t].lastVisitTime # Null
                     THEN [state.tabs[t] EXCEPT
                             !.totalTimeSpent = @ + (n - state.tabs[t].lastVisitTime),
                             !.lastVisitTime = Null]
                     ELSE state.tabs[t]]
        target == IF tab \in DOMAIN closed THEN closed[tab]
                  ELSE createInitialTabAnalytics
        updatedTabs == [t \in DOMAIN closed \cup {tab} |->
                          IF t = tab
                          THEN [target EXCEPT !.visits = @ + 1,
                                              !.lastVisitTime = n,
                                              !.lastVisitedAt = n]
                          ELSE closed[t]]
    IN [state EXCEPT !.tabs = updatedTabs]

\* The loop FINALIZE_TAB_TIMES, FORM_SUBMIT and FORM_ABANDON each contain.
FinalizeTabs(tabs, n) ==
    [t \in DOMAIN tabs |->
        IF tabs[t].lastVisitTime # Null
        THEN [tabs[t] EXCEPT !.totalTimeSpent = @ + (n - tabs[t].lastVisitTime),
                             !.lastVisitTime = Null]
        ELSE tabs[t]]

ReduceFinalizeTabTimes(state, n) ==
    [state EXCEPT !.tabs = FinalizeTabs(state.tabs, n)]

ReduceFormSubmit(state, n) ==
    LET totalErrorCount ==
            SumOver([f \in DOMAIN state.fields |-> Len(state.fields[f].validationErrors)],
                    DOMAIN state.fields)
    IN [state EXCEPT
          !.validationErrorCount = totalErrorCount,
          !.formEndTime = n,
          !.formCompletionTime = n - state.formStartTime,
          !.formSubmitted = TRUE,
          !.formAbandoned = FALSE,
          !.exportReason = "submit",
          !.tabs = FinalizeTabs(state.tabs, n)]

ReduceFormAbandon(state, n) ==
    [state EXCEPT
       !.formEndTime = n,
       !.formAbandoned = TRUE,
       !.tabs = FinalizeTabs(state.tabs, n)]

ReduceSetExportReason(state, reason) ==
    [state EXCEPT !.exportReason = reason]

\* Mutant of ReduceReset: the record is re-created from the configured
\* sections instead of the sections the state holds.
ReduceResetConfiguredTabs(state, id, n) ==
    createInitialAnalyticsState(DOMAIN state.fields, ConfiguredTabs, id, n)

ReduceReset(state, id, n) ==
    createInitialAnalyticsState(DOMAIN state.fields, DOMAIN state.tabs, id, n)

\* Actions of the reducer, as records of one shape ("" where a key is absent).
Action(type, field, error, tab, reason) ==
    [type |-> type, field |-> field, error |-> error, tab |-> tab, reason |-> reason]

ValidationError(field, error) == Action("VALIDATION_ERROR", field, error, "", "")
TabChange(tab) == Action("TAB_CHANGE", "", "", tab, "")
FormSubmit == Action("FORM_SUBMIT", "", "", "", "")
FormAbandon == Action("FORM_ABANDON", "", "", "", "")
ResetAnalytics == Action("RESET_ANALYTICS", "", "", "", "")
FinalizeTabTimes == Action("FINALIZE_TAB_TIMES", "", "", "", "")
SetExportReason(reason) == Action("SET_EXPORT_REASON", "", "", "", reason)
NoAction == Action("", "", "", "", "")

\* analyticsReducer(state, action), with the reducer's Date.now() as n and
\* the uuidv4() a RESET_ANALYTICS draws as id.
analyticsReducer(state, action, n, id) ==
    CASE action.type = "VALIDATION_ERROR" ->
             ReduceValidationError(state, action.field, action.error)
      [] action.type = "TAB_CHANGE" -> ReduceTabChange(state, action.tab, n)
      [] action.type = "FINALIZE_TAB_TIMES" -> ReduceFinalizeTabTimes(state, n)
      [] action.type = "FORM_SUBMIT" -> ReduceFormSubmit(state, n)
      [] action.type = "FORM_ABANDON" -> ReduceFormAbandon(state, n)
      [] action.type = "SET_EXPORT_REASON" -> ReduceSetExportReason(state, action.reason)
      [] action.type = "RESET_ANALYTICS" -> ReduceReset(state, id, n)
      [] OTHER -> state

\* ------------------------------------------- the reducer as a state machine
\* SpecReducer applies any sequence of at most MaxEvents reducer actions, at
\* any non-decreasing instants, to a record created at instant 0.
\*   last         the last action applied (NoAction before the first)
\*   same         the last application returned a record equal to its input
\*   thrown       the last application raised a TypeError (the record is kept)
\*   active       the section the last TabChange made active; "" after a
\*                finalization (FinalizeTabTimes, Submit, Abandon) or a Reset
\*   dwell        per section, the time that passed while it was active
\*   phase, t0    "tabs" while every action so far was a TabChange, the first
\*                at t0; "finalized" after one FinalizeTabTimes closed them
ZeroDwell == [t \in TabIds |-> 0]

\* No field wrapper is mounted.
NoField ==
    /\ formError = ""
    /\ fieldDirty = FALSE
    /\ errorTimer = Null
    /\ errorSince = Null

\* A fresh session record by itself: no provider is mounted, no timeout is
\* pending, nothing was sent.
FreshRecord ==
    /\ now = 0
    /\ uuid = 1
    /\ analytics = createInitialAnalyticsState(FormFields, ConfiguredTabs, 0, 0)
    /\ same = FALSE
    /\ last = NoAction
    /\ nEvents = 0
    /\ thrown = FALSE
    /\ active = ""
    /\ dwell = ZeroDwell
    /\ phase = "fresh"
    /\ t0 = Null
    /\ view = analytics
    /\ mountView = analytics
    /\ dirty = FALSE
    /\ idleDeadline = Null
    /\ timers = <<>>
    /\ lastActivityAt = Null
    /\ formAlreadySubmitted = FALSE
    /\ inflight = <<>>
    /\ wire = <<>>
    /\ delivered = <<>>
    /\ downloads = <<>>
    /\ terminals = <<>>
    /\ triggers = <<>>
    /\ unloaded = FALSE
    /\ NoField
    /\ tabsProp = "configured"
    /\ renders = 0
    /\ cancelled = {}

InitReducer ==
    /\ FreshRecord
    /\ mounted = FALSE
    /\ fieldMounted = FALSE

\* Time passes. A pending timer fires when it is due (time does not pass
\* its deadline), and React renders a dispatched update and runs the effects
\* of a render before time passes.
Tick(t) ==
    /\ t > now
    /\ t <= MaxTime
    /\ ~dirty
    /\ ~fieldDirty
    /\ ~unloaded
    /\ \A i \in 1..Len(timers) : t <= timers[i]
    /\ errorTimer # Null => t <= errorTimer
    /\ now' = t
    /\ dwell' = IF active = "" THEN dwell ELSE [dwell EXCEPT ![active] = @ + (t - now)]
    /\ UNCHANGED <<analytics, uuid, nEvents, last, same, thrown, active, phase, t0,
                   cvars, fvars, lvars>>

\* Bookkeeping common to every application of the reducer.
Applied(action) ==
    /\ nEvents < MaxEvents
    /\ nEvents' = nEvents + 1
    /\ last' = action
    /\ thrown' = ReducerThrows(analytics, action)
    /\ analytics' = IF ReducerThrows(analytics, action) THEN analytics
                    ELSE analyticsReducer(analytics, action, now, uuid)
    /\ same' = (analytics' = analytics)
    /\ UNCHANGED <<now, cvars, fvars, lvars>>

ApplyValidationError(field, error) ==
    /\ Applied(ValidationError(field, error))
    /\ phase' = "other"
    /\ UNCHANGED <<uuid, active, dwell, t0>>

ApplyTabChange(tab) ==
    /\ Applied(TabChange(tab))
    /\ active' = tab
    /\ phase' = IF phase \in {"fresh", "tabs"} THEN "tabs" ELSE "other"
    /\ t0' = IF phase = "fresh" THEN now ELSE t0
    /\ UNCHANGED <<uuid, dwell>>

ApplyFinalizeTabTimes ==
    /\ Applied(FinalizeTabTimes)
    /\ active' = ""
    /\ phase' = IF phase = "tabs" THEN "finalized" ELSE "other"
    /\ UNCHANGED <<uuid, dwell, t0>>

ApplyFormSubmit ==
    /\ Applied(FormSubmit)
    /\ active' = ""
    /\ phase' = "other"
    /\ UNCHANGED <<uuid, dwell, t0>>

ApplyFormAbandon ==
    /\ Applied(FormAbandon)
    /\ active' = ""
    /\ phase' = "other"
    /\ UNCHANGED <<uuid, dwell, t0>>

ApplySetExportReason(reason) ==
    /\ Applied(SetExportReason(reason))
    /\ phase' = "other"
    /\ UNCHANGED <<uuid, active, dwell, t0>>

ApplyReset ==
    /\ uuid < MaxSessions
    /\ Applied(ResetAnalytics)
    /\ uuid' = uuid + 1
    /\ active' = ""
    /\ dwell' = ZeroDwell
    /\ phase' = "fresh"
    /\ t0' = Null

NextReducer ==
    \/ \E t \in TimePoints : Tick(t)
    \/ \E f \in FormFields, m \in Messages : ApplyValidationError(f, m)
    \/ ApplyValidationError(UnknownField, "Required")
    \/ \E tab \in TabIds : ApplyTabChange(tab)
    \/ ApplyFinalizeTabTimes
    \/ ApplyFormSubmit
    \/ ApplyFormAbandon
    \/ \E r \in {"idle", "none"} : ApplySetExportReason(r)
    \/ ApplyReset

SpecReducer == InitReducer /\ [][NextReducer]_vars

\* ------------------------------------------------------------ the provider
\* AnalyticsProvider, one mounted instance on one page.
\*   view            the analytics of the last render: what the callbacks of
\*                   the context value and the unload listener close over
\*   mountView       the analytics of the first render: resetIdleTimer is
\*                   memoized with no dependencies, so the timer callback
\*                   calls the first render's exportAnalytics for ever
\*   dirty           an action was dispatched and React has not rendered yet
\*   timers          the timeouts the provider has set and that neither ran
\*                   nor were cleared: the instant each is due, oldest first
\*   idleDeadline    idleTimerRef: the instant the timeout it holds is due,
\*                   or Null when it holds none or that timeout has run
\*   lastActivityAt  the instant of the last activity signal, or Null
\*   formAlreadySubmitted   the ref of that name
\*   inflight        the axios.post calls awaiting their response
\*   wire            what was sent to <API_URL>/formAnalytics, in order
\*   delivered       the bodies of the posts that were answered
\*   downloads       the bodies offered as a download after a failed post
\*   terminals       the FORM_SUBMIT / FORM_ABANDON actions exportAnalytics
\*                   dispatched, in order
\*   triggers        the terminal-triggering signals so far, in order:
\*                   "submit" (trackFormSubmit), "idle" (timer), "unload"
\*   unloaded        the page's unload event has fired
\* nEvents counts the signals from outside: the calls of the functions of the
\* context value, the activity events and the renders of the host that pass
\* a new tabs array (renders counts these); last is the action dispatched
\* last.

\* exportAnalytics, lines 122-139: the tab objects of the exported record.
cleanTabs(tabs, n) ==
    [t \in DOMAIN tabs |->
        [visits |-> tabs[t].visits,
         totalTimeSpent |-> IF tabs[t].lastVisitTime # Null
                            THEN tabs[t].totalTimeSpent + (n - tabs[t].lastVisitTime)
                            ELSE tabs[t].totalTimeSpent,
         lastVisitTime |-> tabs[t].lastVisitTime]]

completeAnalytics(snap, reason, n) ==
    [snap EXCEPT
       !.tabs = cleanTabs(snap.tabs, n),
       !.formEndTime = n,
       !.formCompletionTime = n - snap.formStartTime,
       !.formSubmitted = IF reason = "submit" THEN TRUE ELSE @,
       !.formAbandoned = IF reason \in {"tabClose", "idle"} THEN TRUE ELSE @,
       !.exportReason = reason]

\* handleUnload: the body of the beacon.
beaconBody(snap) ==
    [snap EXCEPT !.formAbandoned = TRUE, !.exportReason = "tabClose"]

\* The state after the three dispatches that follow an answered post.
afterExport(state, reason, n, id) ==
    LET terminal == IF reason = "submit" THEN FormSubmit ELSE FormAbandon
        s1 == analyticsReducer(state, terminal, n, id)
        s2 == analyticsReducer(s1, SetExportReason(reason), n, id)
    IN analyticsReducer(s2, FinalizeTabTimes, n, id)

\* resetIdleTimer: the delay of the timer it arms.
idleDelay == IDLE_TIMEOUT

Without(s, i) == SubSeq(s, 1, i - 1) \o SubSeq(s, i + 1, Len(s))

\* clearTimeout(ref): the timeout the ref holds is pending no more.
clearTimeout(ts, ref) ==
    IF \E i \in 1..Len(ts) : ts[i] = ref
    THEN Without(ts, CHOOSE i \in 1..Len(ts) : ts[i] = ref)
    ELSE ts

\* A resetIdleTimer that leaves the timeout it replaces pending.
resetIdleTimerKeepsPending(ts, ref, n) ==
    [timers |-> Append(ts, n + idleDelay), ref |-> n + idleDelay]

\* resetIdleTimer at instant n: the timeout of the ref is cleared, and a new
\* one, due a whole IDLE_TIMEOUT later, is set and kept in the ref.
resetIdleTimer(ts, ref, n) ==
    [timers |-> Append(clearTimeout(ts, ref), n + idleDelay), ref |-> n + idleDelay]

\* The tabs prop: left out ("undefined"), an empty array ("empty") or the
\* array of the configured sections ("configured").
TabsProps == {"undefined", "empty", "configured"}
tabsOf(prop) == IF prop = "configured" THEN ConfiguredTabs ELSE {}

\* The provider after mounting at instant 0, with the tabs prop given or not:
\* the mount effect has armed the idle timer and, without tabs, has
\* dispatched TAB_CHANGE for the section "default".
ProviderMounted ==
    /\ now = 0
    /\ uuid = 1
    /\ tabsProp \in TabsProps
    /\ renders = 0
    /\ cancelled = {}
    /\ mounted = TRUE
    /\ LET tabs == tabsOf(tabsProp)
           normalizedTabs == IF tabs = {} THEN {"default"} ELSE tabs
           initial == createInitialAnalyticsState(FormFields, normalizedTabs, 0, 0)
       IN /\ mountView = initial
          /\ view = initial
          /\ analytics = IF tabs = {}
                         THEN analyticsReducer(initial, TabChange("default"), 0, 1)
                         ELSE initial
          /\ dirty = (tabs = {})
    /\ timers = resetIdleTimer(<<>>, Null, 0).timers
    /\ idleDeadline = resetIdleTimer(<<>>, Null, 0).ref
    /\ lastActivityAt = Null
    /\ formAlreadySubmitted = FALSE
    /\ inflight = <<>>
    /\ wire = <<>>
    /\ delivered = <<>>
    /\ downloads = <<>>
    /\ terminals = <<>>
    /\ triggers = <<>>
    /\ unloaded = FALSE
    /\ nEvents = 0
    /\ last = NoAction
    /\ same = FALSE
    /\ thrown = FALSE
    /\ active = ""
    /\ dwell = ZeroDwell
    /\ phase = "fresh"
    /\ t0 = Null
    /\ NoField

Init ==
    /\ ProviderMounted
    /\ fieldMounted = FALSE

\* One more signal from outside, while the page lives.
Signal ==
    /\ mounted
    /\ ~unloaded
    /\ nEvents < MaxCalls
    /\ nEvents' = nEvents + 1

\* dispatch(action) from a tracking function of the context value.
Dispatch(action) ==
    /\ Signal
    /\ analytics' = analyticsReducer(analytics, action, now, uuid)
    /\ last' = action
    /\ dirty' = TRUE
    /\ UNCHANGED <<now, hvars, fvars, lvars, view, mountView, idleDeadline, timers,
                   lastActivityAt, formAlreadySubmitted, inflight, wire, delivered,
                   downloads, terminals, triggers, unloaded>>

TrackValidationError(field, error) ==
    /\ Dispatch(ValidationError(field, error))
    /\ UNCHANGED uuid

TrackTabChange(tab) ==
    /\ Dispatch(TabChange(tab))
    /\ UNCHANGED uuid

TrackFormAbandon ==
    /\ Dispatch(FormAbandon)
    /\ UNCHANGED uuid

ResetAnalyticsCall ==
    /\ uuid < MaxSessions
    /\ Dispatch(ResetAnalytics)
    /\ uuid' = uuid + 1

\* React renders the dispatched state: the callbacks close over it, and the
\* effect that depends on analytics runs again (analytics.sessionId is a
\* non-empty string, so the ref is cleared).
Render ==
    /\ mounted
    /\ ~unloaded
    /\ dirty
    /\ dirty' = FALSE
    /\ view' = analytics
    /\ formAlreadySubmitted' = FALSE
    /\ UNCHANGED <<analytics, now, uuid, nEvents, rvars, fvars, lvars, mountView,
                   idleDeadline, timers,
                   lastActivityAt, inflight, wire, delivered, downloads, terminals,
                   triggers, unloaded>>

\* handleActivity (mousemove, keydown, scroll, click): resetIdleTimer.
HandleActivity ==
    /\ Signal
    /\ timers' = resetIdleTimer(timers, idleDeadline, now).timers
    /\ idleDeadline' = resetIdleTimer(timers, idleDeadline, now).ref
    /\ lastActivityAt' = now
    /\ UNCHANGED <<analytics, now, uuid, rvars, fvars, lvars, view, mountView, dirty,
                   formAlreadySubmitted, inflight, wire, delivered, downloads,
                   terminals, triggers, unloaded>>

\* exportAnalytics(reason) up to its await: the record is built from the
\* analytics the called closure holds and posted.
ExportStart(reason, snap) ==
    LET body == completeAnalytics(snap, reason, now)
    IN /\ triggers' = Append(triggers, reason)
       /\ wire' = Append(wire, [channel |-> "post", body |-> body])
       /\ inflight' = Append(inflight, [reason |-> reason, body |-> body])
       /\ UNCHANGED <<analytics, now, uuid, rvars, fvars, lvars, view, mountView, dirty,
                      lastActivityAt, formAlreadySubmitted, delivered, downloads,
                      terminals, unloaded>>

\* A timeout is due and runs: exportAnalytics("idle") of the first render.
IdleExpire ==
    /\ ~unloaded
    /\ \E i \in 1..Len(timers) :
          /\ now = timers[i]
          /\ timers' = Without(timers, i)
    /\ idleDeadline' = IF idleDeadline = now THEN Null ELSE idleDeadline
    /\ ExportStart("idle", mountView)
    /\ UNCHANGED nEvents

\* trackFormSubmit(redirectUrl): exportAnalytics("submit") of the last render
\* (the navigate that follows the await leaves the provider as it is).
TrackFormSubmit ==
    /\ Signal
    /\ ExportStart("submit", view)
    /\ UNCHANGED <<idleDeadline, timers>>

\* The post inflight[i] is answered: exportAnalytics continues after its await.
PostResolved(i) ==
    LET reason == inflight[i].reason
    IN /\ ~unloaded
       /\ analytics' = afterExport(analytics, reason, now, uuid)
       /\ last' = FinalizeTabTimes
       /\ formAlreadySubmitted' = IF reason = "submit" THEN TRUE ELSE formAlreadySubmitted
       /\ dirty' = TRUE
       /\ terminals' = Append(terminals, IF reason = "submit" THEN "FORM_SUBMIT"
                                         ELSE "FORM_ABANDON")
       /\ delivered' = Append(delivered, inflight[i].body)
       /\ inflight' = Without(inflight, i)
       /\ UNCHANGED <<now, uuid, nEvents, hvars, fvars, lvars, view, mountView, idleDeadline,
                      timers, lastActivityAt, wire, downloads, triggers, unloaded>>

\* A catch block that also marks the session abandoned.
PostRejectedThenAbandons(i) ==
    /\ ~unloaded
    /\ downloads' = Append(downloads, inflight[i].body)
    /\ inflight' = Without(inflight, i)
    /\ analytics' = analyticsReducer(analytics, FormAbandon, now, uuid)
    /\ last' = FormAbandon
    /\ dirty' = TRUE
    /\ terminals' = Append(terminals, "FORM_ABANDON")
    /\ UNCHANGED <<now, uuid, nEvents, hvars, fvars, lvars, view, mountView, idleDeadline,
                   timers, lastActivityAt, formAlreadySubmitted, wire, delivered,
                   triggers, unloaded>>

\* The post inflight[i] fails: the catch block offers the record as a download.
PostRejected(i) ==
    /\ ~unloaded
    /\ downloads' = Append(downloads, inflight[i].body)
    /\ inflight' = Without(inflight, i)
    /\ UNCHANGED <<analytics, now, uuid, nEvents, rvars, fvars, lvars, view, mountView, dirty,
                   idleDeadline, timers, lastActivityAt, formAlreadySubmitted, wire, delivered,
                   terminals, triggers, unloaded>>

\* The unload event: the listener of the last render runs, and the page ends.
HandleUnload ==
    /\ mounted
    /\ ~unloaded
    /\ unloaded' = TRUE
    /\ triggers' = Append(triggers, "unload")
    /\ wire' = IF ~formAlreadySubmitted
               THEN Append(wire, [channel |-> "beacon", body |-> beaconBody(view)])
               ELSE wire
    /\ UNCHANGED <<analytics, now, uuid, nEvents, rvars, fvars, lvars, view, mountView, dirty,
                   idleDeadline, timers, lastActivityAt, formAlreadySubmitted, inflight,
                   delivered, downloads, terminals>>

\* A cleanup of the mount effect that leaves the timeout pending.
mountCleanupLeavesTimer(ts, ref) == ts

\* The cleanup of the mount effect: the timeout of the ref is cleared (and
\* the activity listeners are removed).
mountCleanup(ts, ref) == clearTimeout(ts, ref)

\* The host renders again and passes a new array as the tabs prop (an array
\* literal in its JSX): tabs is a dependency of the mount effect, so the
\* cleanup runs and the effect runs again. It sets the idle timer anew and,
\* for an empty array, calls trackTabChange("default").
ParentRerender ==
    /\ Signal
    /\ ~dirty
    /\ tabsProp # "undefined"
    /\ renders' = renders + 1
    /\ timers' = resetIdleTimer(mountCleanup(timers, idleDeadline), idleDeadline, now).timers
    /\ idleDeadline' = resetIdleTimer(mountCleanup(timers, idleDeadline), idleDeadline, now).ref
    /\ IF tabsOf(tabsProp) = {}
       THEN /\ analytics' = analyticsReducer(analytics, TabChange("default"), now, uuid)
            /\ last' = TabChange("default")
            /\ dirty' = TRUE
       ELSE UNCHANGED <<analytics, last, dirty>>
    /\ UNCHANGED <<now, uuid, hvars, fvars, tabsProp, mounted, fieldMounted,
                   cancelled, view, mountView, lastActivityAt, formAlreadySubmitted, inflight,
                   wire, delivered, downloads, terminals, triggers, unloaded>>

Next ==
    \/ \E t \in {5000} \cup LatePoints \cup {idleDeadline} : Tick(t)
    \/ ParentRerender
    \/ TrackValidationError(FieldName, "Required")
    \/ TrackTabChange("personal")
    \/ TrackFormAbandon
    \/ ResetAnalyticsCall
    \/ Render
    \/ HandleActivity
    \/ IdleExpire
    \/ TrackFormSubmit
    \/ \E i \in 1..Len(inflight) : PostResolved(i)
    \/ \E i \in 1..Len(inflight) : PostRejected(i)
    \/ HandleUnload

Spec == Init /\ [][Next]_vars

\* ------------------------------------------------------------ claims, Spec
Posts == {i \in 1..Len(wire) : wire[i].channel = "post"}
Beacons == {i \in 1..Len(wire) : wire[i].channel = "beacon"}

\* C1 (as claimed): at most one record with a given sessionId is sent to the
\* endpoint, posts and beacons counted together.
C1_AtMostOneTransmission ==
    \A i, j \in 1..Len(wire) :
        wire[i].body.sessionId = wire[j].body.sessionId => i = j

\* C2 (as claimed): when one idle expiry and one explicit submit have both
\* occurred in the session, one record was sent, its exportReason is that of
\* the first of the two, and at most one terminal action was dispatched.
C2_FirstTriggerWins ==
    (Len(triggers) = 2 /\ Range(triggers) = {"idle", "submit"} /\ uuid = 1) =>
        /\ Len(wire) = 1
        /\ wire[1].body.exportReason = triggers[1]
        /\ Len(inflight) + Len(delivered) + Len(downloads) = 1
        /\ Len(terminals) <= 1

\* C3 (as claimed): once a submit export of the current session was
\* delivered, formAlreadySubmitted stays set, and no beacon is sent with the
\* sessionId of a delivered submit export.
C3_NoBeaconAfterSubmit ==
    \A i \in 1..Len(delivered) :
        delivered[i].exportReason = "submit" =>
            /\ delivered[i].sessionId = analytics.sessionId => formAlreadySubmitted
            /\ \A j \in Beacons : wire[j].body.sessionId # delivered[i].sessionId

\* C4: with no activity signal, no submit and no unload, once more than
\* IDLE_TIMEOUT has passed since the session started the idle timer has
\* expired and exactly one record was posted, with exportReason "idle",
\* formAbandoned true and formSubmitted false; it is in flight, delivered or
\* (the post having failed) offered as a download, and nothing else is.
C4_IdleExport ==
    ( /\ lastActivityAt = Null
      /\ Range(triggers) \subseteq {"idle"}
      /\ now > analytics.formStartTime + IDLE_TIMEOUT ) =>
        /\ idleDeadline = Null
        /\ triggers = <<"idle">>
        /\ Len(wire) = 1
        /\ wire[1].channel = "post"
        /\ wire[1].body.exportReason = "idle"
        /\ wire[1].body.formAbandoned
        /\ ~wire[1].body.formSubmitted
        /\ Len(inflight) + Len(delivered) + Len(downloads) = 1
        /\ \A i \in 1..Len(inflight) : inflight[i].body = wire[1].body
        /\ \A i \in 1..Len(delivered) : delivered[i] = wire[1].body
        /\ \A i \in 1..Len(downloads) : downloads[i] = wire[1].body

\* ------------------------------------------------------ claims, SpecReducer
\* A step of SpecReducer that applies the reducer to action.type = type.
Applies(type) == nEvents' = nEvents + 1 /\ last'.type = type

Occurrences(s, x) == Cardinality({i \in 1..Len(s) : s[i] = x})

TotalTimeSpent(tabs) ==
    SumOver([t \in DOMAIN tabs |-> tabs[t].totalTimeSpent], DOMAIN tabs)

\* C5: applying ValidationError(field, message) for a field of the session
\* leaves the message exactly once in the field's validationErrors; if the
\* message was already recorded the record is unchanged, otherwise
\* validationErrorCount grows by exactly 1; and no action other than Reset
\* removes a recorded message, so a second application after any other
\* actions is again one that changes nothing.
C5_ValidationErrorDedup ==
    [][ /\ (Applies("VALIDATION_ERROR") /\ ~thrown') =>
             LET f == last'.field
                 m == last'.error
             IN /\ Occurrences(analytics'.fields[f].validationErrors, m) = 1
                /\ IF m \in Range(analytics.fields[f].validationErrors)
                   THEN analytics' = analytics
                   ELSE analytics'.validationErrorCount =
                            analytics.validationErrorCount + 1
        /\ (nEvents' = nEvents + 1 /\ last'.type # "RESET_ANALYTICS") =>
             \A f \in DOMAIN analytics.fields :
                Range(analytics.fields[f].validationErrors)
                   \subseteq Range(analytics'.fields[f].validationErrors)
      ]_vars

\* Witness of C5: a ValidationError was applied whose message was already
\* recorded, and the record (one error counted) came back unchanged.
C5_Witness ==
    /\ last.type = "VALIDATION_ERROR"
    /\ ~thrown
    /\ same
    /\ last.error \in Range(analytics.fields[last.field].validationErrors)
    /\ analytics.validationErrorCount = 1

\* C6 (as claimed): after a sequence of TabChange actions, the first at t0,
\* and one FinalizeTabTimes at instant now, the totalTimeSpent of all sections
\* adds up to now - t0.
C6_DwellConservation ==
    [][ (phase = "tabs" /\ phase' = "finalized") =>
            TotalTimeSpent(analytics'.tabs) = now - t0 ]_vars

\* C7 (as claimed): after Submit each section's totalTimeSpent is the time
\* that passed while it was the active section, formSubmitted is set and
\* formCompletionTime is the instant of the Submit minus formStartTime.
C7_SubmitDwell ==
    [][ Applies("FORM_SUBMIT") =>
            /\ \A t \in DOMAIN analytics'.tabs :
                  analytics'.tabs[t].totalTimeSpent = dwell[t]
            /\ analytics'.formSubmitted
            /\ analytics'.formCompletionTime = now - analytics.formStartTime ]_vars

\* Scenario A of C7, computed with the reducer: TabChange(personal)@0,
\* TabChange(payment)@5000, TabChange(experience)@12000, Submit@20000.
ScenarioA ==
    LET s0 == createInitialAnalyticsState(FormFields, ConfiguredTabs, 0, 0)
        s1 == analyticsReducer(s0, TabChange("personal"), 0, 1)
        s2 == analyticsReducer(s1, TabChange("payment"), 5000, 1)
        s3 == analyticsReducer(s2, TabChange("experience"), 12000, 1)
        s4 == analyticsReducer(s3, FormSubmit, 20000, 1)
    IN /\ s4.tabs["personal"].totalTimeSpent = 5000
       /\ s4.tabs["payment"].totalTimeSpent = 7000
       /\ s4.tabs["experience"].totalTimeSpent = 8000
       /\ s4.formSubmitted
       /\ s4.formCompletionTime = 20000

\* C8: Reset yields a record with the field identifiers and the section
\* identifiers of the record it is applied to (sections TabChange added
\* included), created at the instant of the Reset: no errors, counters zero,
\* no section active, flags and end times cleared, and another sessionId.
C8_ResetFresh ==
    [][ Applies("RESET_ANALYTICS") =>
            /\ DOMAIN analytics'.fields = DOMAIN analytics.fields
            /\ DOMAIN analytics'.tabs = DOMAIN analytics.tabs
            /\ \A f \in DOMAIN analytics'.fields :
                  analytics'.fields[f] = [id |-> f, validationErrors |-> <<>>]
            /\ \A t \in DOMAIN analytics'.tabs :
                  /\ analytics'.tabs[t].visits = 0
                  /\ analytics'.tabs[t].totalTimeSpent = 0
                  /\ analytics'.tabs[t].lastVisitTime = Null
            /\ analytics'.validationErrorCount = 0
            /\ ~analytics'.formSubmitted
            /\ ~analytics'.formAbandoned
            /\ analytics'.formStartTime = now
            /\ analytics'.formEndTime = Null
            /\ analytics'.formCompletionTime = Null
            /\ analytics'.exportReason = "none"
            /\ analytics'.sessionId # analytics.sessionId ]_vars

\* Witness of C8: a Reset was applied to a record that held a section added
\* by TabChange, and the new record holds it too.
C8_Witness ==
    /\ last.type = "RESET_ANALYTICS"
    /\ analytics.sessionId = 1
    /\ "default" \in DOMAIN analytics.tabs
    /\ analytics.tabs["default"].visits = 0

\* C9 (as claimed): formSubmitted and formAbandoned are never both true.
C9_SubmittedXorAbandoned ==
    ~(analytics.formSubmitted /\ analytics.formAbandoned)

\* C10: validationErrorCount is the sum over the fields of the number of
\* distinct messages in the field's validationErrors.
C10_ErrorCountIsSum ==
    analytics.validationErrorCount =
        SumOver([f \in DOMAIN analytics.fields |->
                    Cardinality(Range(analytics.fields[f].validationErrors))],
                DOMAIN analytics.fields)

\* Witness of C10: one error in each of the two fields, then a Submit
\* that re-derives the count.
C10_Witness ==
    /\ last.type = "FORM_SUBMIT"
    /\ analytics.validationErrorCount = 2
    /\ \A f \in FormFields : Len(analytics.fields[f].validationErrors) = 1

\* ------------------------------------------------- claims, Spec (sections)
\* The sections of a record that are active (lastVisitTime is set).
ActiveTabs(state) == {t \in DOMAIN state.tabs : state.tabs[t].lastVisitTime # Null}

\* The action dispatched last closed the sections: FINALIZE_TAB_TIMES,
\* FORM_SUBMIT or FORM_ABANDON.
JustFinalized == last.type \in {"FINALIZE_TAB_TIMES", "FORM_SUBMIT", "FORM_ABANDON"}

\* C11: in every state of a mounted provider, with the tabs prop given or
\* not, exactly one section of the session record is active, except right
\* after a finalization (FinalizeTabTimes, Submit, Abandon), where none is.
C11_ExactlyOneActive ==
    \/ Cardinality(ActiveTabs(analytics)) = 1
    \/ JustFinalized /\ ActiveTabs(analytics) = {}

\* ------------------------------------------ claims, SpecReducer (continued)
\* C12: a ValidationError for a field identifier that the record's fields do
\* not hold is a no-op: the reducer returns the record it was given and raises
\* no error.
C12_UnknownFieldNoOp ==
    (last.type = "VALIDATION_ERROR" /\ last.field \notin DOMAIN analytics.fields)
        => (same /\ ~thrown)

\* ---------------------------------------------- claims, Spec (continued)
\* C13: the guard formAlreadySubmitted is set before the post of a submit
\* export suspends: an unload that arrives while such a post awaits its
\* response finds the guard set and sends no beacon for the session.
C13_GuardBeforeAwait ==
    \A i \in 1..Len(inflight) :
        (unloaded /\ inflight[i].reason = "submit") =>
            /\ formAlreadySubmitted
            /\ \A j \in Beacons : wire[j].body.sessionId # inflight[i].body.sessionId

\* What was reduced into state is in the sent record body: the fields with
\* their errors, the error count, the sections with their visits, and at
\* least the time each section has accumulated.
Reflects(body, state) ==
    /\ body.fields = state.fields
    /\ body.validationErrorCount = state.validationErrorCount
    /\ DOMAIN body.tabs = DOMAIN state.tabs
    /\ \A t \in DOMAIN state.tabs :
          /\ t \in DOMAIN body.tabs
          /\ body.tabs[t].visits = state.tabs[t].visits
          /\ body.tabs[t].totalTimeSpent >= state.tabs[t].totalTimeSpent

\* C14: the record an export sends is built from the session record as it is
\* when the trigger fires (submit, idle expiry, unload): every ValidationError
\* and TabChange reduced before the trigger is in the fields, the error count,
\* the visits and the times of the record sent. Stated for the triggers that
\* fire when React has rendered every dispatched action, so that the
\* callbacks of the last render hold the current record.
C14_SnapshotIsCurrent ==
    [][(wire' # wire /\ ~dirty) => Reflects(wire'[Len(wire')].body, analytics)]_vars

\* C15: when a post is answered, the session record the provider then holds
\* agrees with the record that was delivered on formSubmitted, formAbandoned
\* and exportReason, whatever the reason of the export and whatever the
\* record was before.
C15_LocalAgreesWithDelivered ==
    [][delivered' # delivered =>
         LET sent == delivered'[Len(delivered')]
         IN /\ analytics'.formSubmitted = sent.formSubmitted
            /\ analytics'.formAbandoned = sent.formAbandoned
            /\ analytics'.exportReason = sent.exportReason]_vars

\* C16: the record sent by the beacon on unload is a finalized snapshot: the
\* time of the section active at the unload is folded into its
\* totalTimeSpent, formEndTime is set, formAbandoned is true and exportReason
\* is tabClose.
C16_BeaconIsFinalized ==
    \A j \in Beacons :
        LET body == wire[j].body
        IN /\ body.formAbandoned
           /\ body.exportReason = "tabClose"
           /\ body.formEndTime # Null
           /\ \A t \in DOMAIN body.tabs :
                 body.tabs[t].totalTimeSpent = FinalizeTabs(view.tabs, now)[t].totalTimeSpent

\* C17: when the post of an export fails, the export makes one fallback
\* attempt (the download) with the record it had posted and no further post,
\* dispatches nothing (the session record stays as it is) and ends there;
\* every post is in flight, answered, or replaced by exactly one download.
C17_FailedPostFallsBackOnce ==
    /\ [](Len(inflight) + Len(delivered) + Len(downloads) = Cardinality(Posts))
    /\ [][downloads' # downloads =>
            /\ \E i \in 1..Len(inflight) :
                  /\ downloads' = Append(downloads, inflight[i].body)
                  /\ inflight' = Without(inflight, i)
                  /\ \E j \in Posts : wire[j].body = inflight[i].body
            /\ wire' = wire
            /\ analytics' = analytics
            /\ last' = last
            /\ terminals' = terminals
            /\ delivered' = delivered
            /\ unloaded' = unloaded]_vars

\* A submit export whose post failed: the one record posted is the one record
\* offered as a download, and the session record is unsubmitted.
C17_Witness ==
    /\ Len(wire) = 1
    /\ wire[1].body.exportReason = "submit"
    /\ downloads = <<wire[1].body>>
    /\ inflight = <<>>
    /\ delivered = <<>>
    /\ ~analytics.formSubmitted
    /\ analytics.exportReason = "none"

\* ------------------------------------------ claims, SpecReducer (terminal)
\* C18: once a record has gone through Submit or Abandon (its formEndTime is
\* set), no later ValidationError, TabChange, FinalizeTabTimes, Submit or
\* Abandon changes it; only Reset replaces it, by a record with a new
\* sessionId.
C18_TerminalIsFrozen ==
    [][(analytics.formEndTime # Null /\ nEvents' = nEvents + 1) =>
          IF last'.type = "RESET_ANALYTICS"
          THEN analytics'.sessionId # analytics.sessionId
          ELSE last'.type \in {"VALIDATION_ERROR", "TAB_CHANGE", "FINALIZE_TAB_TIMES",
                               "FORM_SUBMIT", "FORM_ABANDON"}
                  => analytics' = analytics]_vars

\* ------------------------------------------------ claims, Spec (idle timer)
\* The instant of the last activity signal, or of the mount before any.
LastSignalAt == IF lastActivityAt = Null THEN 0 ELSE lastActivityAt

\* C19: the idle timer is a debounce. Every activity signal clears the
\* pending timeout and sets a new one a whole IDLE_TIMEOUT ahead, so at most
\* one timeout is pending at any time; an idle expiry happens only when at
\* least IDLE_TIMEOUT has passed since the last signal (a mount effect that
\* runs again sets the timer later still); and after it no timeout is
\* pending, so it happens once per idle window.
C19_IdleTimerDebounce ==
    /\ [](Len(timers) <= 1)
    /\ [](\A i \in 1..Len(timers) : timers[i] >= LastSignalAt + IDLE_TIMEOUT)
    /\ [][lastActivityAt' # lastActivityAt => timers' = <<now + IDLE_TIMEOUT>>]_vars
    /\ [][triggers' = Append(triggers, "idle") =>
            /\ now >= LastSignalAt + IDLE_TIMEOUT
            /\ timers' = <<>>]_vars

\* An activity signal at 5000 moved the deadline: the idle export happened at
\* 605000, not at 600000.
C19_Witness ==
    /\ lastActivityAt = 5000
    /\ triggers = <<"idle">>
    /\ now = 5000 + IDLE_TIMEOUT
    /\ timers = <<>>

\* -------------------------------------------------------- the field wrapper
\* TrackedFormField, one mounted instance for the field FieldName, inside a
\* provider whose record is analytics.
\*   formError    form.formState.errors[name]: the message of the field's
\*                error, or "" when the field has none
\*   fieldDirty   the component has to render and run its effect again: the
\*                form state changed, or a dependency of the effect did
\*   errorTimer   errorTimerRef: the instant the pending timeout is due, or
\*                Null when none is pending
\*   errorSince   the instant since which the field has had an error without
\*                interruption, or Null when it has none
\* nEvents counts the calls of trackValidationError, last is the action the
\* last of them dispatched.

\* An effect that leaves a pending timeout in place.
errorEffectKeepsTimer(timer, err, n) ==
    IF timer # Null THEN timer
    ELSE IF err # "" THEN n + ERROR_PERSISTENCE_THRESHOLD ELSE Null

\* The effect at instant n: the pending timeout is cleared, and with an error
\* a new one is set; the value is the new content of errorTimerRef.
errorEffect(timer, err, n) ==
    IF err # "" THEN n + ERROR_PERSISTENCE_THRESHOLD ELSE Null

\* The field mounted without an error, in a fresh session: no timeout (the
\* provider that holds the record is mounted, its own timer is left out).
InitField ==
    /\ FreshRecord
    /\ mounted = TRUE
    /\ fieldMounted = TRUE

\* Validation gives the field the error m (a first error, or another message).
SetError(m) ==
    /\ fieldMounted
    /\ ~fieldDirty
    /\ m # formError
    /\ formError' = m
    /\ fieldDirty' = TRUE
    /\ errorSince' = IF formError = "" THEN now ELSE errorSince
    /\ UNCHANGED <<analytics, now, uuid, nEvents, rvars, cvars, lvars, errorTimer>>

\* Validation clears the field's error.
ClearError ==
    /\ fieldMounted
    /\ ~fieldDirty
    /\ formError # ""
    /\ formError' = ""
    /\ fieldDirty' = TRUE
    /\ errorSince' = Null
    /\ UNCHANGED <<analytics, now, uuid, nEvents, rvars, cvars, lvars, errorTimer>>

\* A render in which a dependency of the effect has a new identity
\* (form.formState, trackValidationError) while the error is what it was.
FieldRerender ==
    /\ fieldMounted
    /\ ~fieldDirty
    /\ fieldDirty' = TRUE
    /\ UNCHANGED <<analytics, now, uuid, nEvents, rvars, cvars, lvars, formError, errorTimer,
                   errorSince>>

\* The component renders and its effect runs.
RunErrorEffect ==
    /\ fieldMounted
    /\ fieldDirty
    /\ fieldDirty' = FALSE
    /\ errorTimer' = errorEffect(errorTimer, formError, now)
    /\ UNCHANGED <<analytics, now, uuid, nEvents, rvars, cvars, lvars, formError, errorSince>>

\* The timeout is due and its callback runs: with an error on the field it
\* calls trackValidationError(name, message), which dispatches; the provider
\* renders, trackValidationError is a new function, and the effect is due.
ErrorTimerFires ==
    /\ errorTimer # Null
    /\ now = errorTimer
    /\ errorTimer' = Null
    /\ IF formError # ""
       THEN /\ analytics' = analyticsReducer(analytics, ValidationError(FieldName, formError),
                                             now, uuid)
            /\ last' = ValidationError(FieldName, formError)
            /\ nEvents' = nEvents + 1
            /\ fieldDirty' = TRUE
       ELSE UNCHANGED <<analytics, last, nEvents, fieldDirty>>
    /\ UNCHANGED <<now, uuid, hvars, cvars, lvars, formError, errorSince>>

NextField ==
    \/ \E t \in FieldPoints \cup {errorTimer} : Tick(t)
    \/ \E m \in Messages : SetError(m)
    \/ ClearError
    \/ FieldRerender
    \/ RunErrorEffect
    \/ ErrorTimerFires

SpecField == InitField /\ [][NextField]_vars

\* ------------------------------------------------------- claims, SpecField
\* C20: the field wrapper reports ValidationError(field, message) only when
\* the field has had an error without interruption for
\* ERROR_PERSISTENCE_THRESHOLD and still has it, with the message it then
\* has; once the effect has seen the error cleared no timeout is pending, and
\* the session record changes by such a report only.
C20_ReportOnlyPersistentError ==
    /\ []((formError = "" /\ ~fieldDirty) => errorTimer = Null)
    /\ [][nEvents' # nEvents =>
            /\ formError # ""
            /\ errorSince # Null
            /\ now - errorSince >= ERROR_PERSISTENCE_THRESHOLD
            /\ last' = ValidationError(FieldName, formError)]_vars
    /\ [][analytics' # analytics => nEvents' # nEvents]_vars

\* The field got the error "Required" at 5000, kept it, and it was reported
\* at 65000.
C20_Witness ==
    /\ errorSince = 5000
    /\ now = 5000 + ERROR_PERSISTENCE_THRESHOLD
    /\ nEvents = 1
    /\ last = ValidationError(FieldName, "Required")
    /\ analytics.fields[FieldName].validationErrors = <<"Required">>

\* ------------------------------------------ claims, SpecReducer (sections)
\* C23: in every record the reducer can produce at most one section is
\* active: a TabChange leaves its target the only active section, and
\* FinalizeTabTimes, Submit and Abandon leave none.
C23_AtMostOneActive ==
    /\ [](Cardinality(ActiveTabs(analytics)) <= 1)
    /\ [][Applies("TAB_CHANGE") => ActiveTabs(analytics') = {last'.tab}]_vars
    /\ [][(\E type \in {"FINALIZE_TAB_TIMES", "FORM_SUBMIT", "FORM_ABANDON"} : Applies(type))
             => ActiveTabs(analytics') = {}]_vars

\* The section personal was active from 0 to 5000, then payment was made
\* active: personal is closed with its time, payment is the one active.
C23_Witness ==
    /\ last = TabChange("payment")
    /\ analytics.tabs["personal"].visits = 1
    /\ analytics.tabs["personal"].totalTimeSpent = 5000
    /\ analytics.tabs["personal"].lastVisitTime = Null
    /\ ActiveTabs(analytics) = {"payment"}

\* ---------------------------------------------- claims, Spec (mount effect)
\* C21: without configured sections (tabs left out or empty) the provider
\* dispatches one TabChange for the section "default" at startup and none
\* later: before any signal from outside "default" is the active section with
\* visits 1, and no step other than a call from the host (a render of the
\* host is none) raises its visits.
C21_DefaultTabOnce ==
    /\ []((tabsProp # "configured" /\ nEvents = 0 /\ terminals = <<>>) =>
             /\ analytics.tabs["default"].visits = 1
             /\ ActiveTabs(analytics) = {"default"})
    /\ [][(tabsProp # "configured" /\ (nEvents' = nEvents \/ renders' # renders)) =>
             analytics'.tabs["default"].visits <= analytics.tabs["default"].visits]_vars

\* ------------------------------------------------- disposal of the scope
\* The provider with one TrackedFormField in it, up to their unmounting. The
\* responses of the posts are left out: what is followed here are the two
\* timers, which the browser runs whether their component lives or not.

\* The cleanup of the field's effect: the timeout of errorTimerRef is cleared.
fieldCleanup(timer) == Null

InitScope ==
    /\ ProviderMounted
    /\ tabsProp = "configured"
    /\ fieldMounted = TRUE

\* The field wrapper unmounts (its tab is left, the form drops the field).
UnmountField ==
    /\ fieldMounted
    /\ fieldMounted' = FALSE
    /\ errorTimer' = fieldCleanup(errorTimer)
    /\ fieldDirty' = FALSE
    /\ cancelled' = cancelled \cup (IF errorTimer # Null THEN {"error"} ELSE {})
    /\ UNCHANGED <<analytics, now, uuid, nEvents, rvars, cvars, formError, errorSince,
                   tabsProp, renders, mounted>>

\* The provider unmounts, and with it the field wrapper inside it: the
\* cleanups of their effects run, nothing renders any more.
Unmount ==
    /\ mounted
    /\ ~unloaded
    /\ mounted' = FALSE
    /\ fieldMounted' = FALSE
    /\ timers' = mountCleanup(timers, idleDeadline)
    /\ idleDeadline' = Null
    /\ errorTimer' = IF fieldMounted THEN fieldCleanup(errorTimer) ELSE errorTimer
    /\ dirty' = FALSE
    /\ fieldDirty' = FALSE
    /\ cancelled' = cancelled \cup (IF timers # <<>> THEN {"idle"} ELSE {})
                            \cup (IF fieldMounted /\ errorTimer # Null THEN {"error"} ELSE {})
    /\ UNCHANGED <<analytics, now, uuid, nEvents, rvars, view, mountView, lastActivityAt,
                   formAlreadySubmitted, inflight, wire, delivered, downloads, terminals,
                   triggers, unloaded, formError, errorSince, tabsProp, renders>>

NextScope ==
    \/ \E t \in FieldPoints \cup LatePoints \cup {errorTimer, idleDeadline} : Tick(t)
    \/ HandleActivity
    \/ ParentRerender
    \/ IdleExpire
    \/ SetError("Required")
    \/ ClearError
    \/ FieldRerender
    \/ RunErrorEffect
    \/ ErrorTimerFires
    \/ UnmountField
    \/ Unmount

SpecScope == InitScope /\ [][NextScope]_vars

\* ------------------------------------------------------- claims, SpecScope
\* C22: once the provider is unmounted no idle timeout is pending and none
\* runs into an export; once the field wrapper is unmounted no error timeout
\* is pending and none runs into a report. Every timer of the scope is
\* cancelled when the scope is disposed.
C22_TimersCancelledAtDisposal ==
    /\ [](~mounted => timers = <<>>)
    /\ [](~fieldMounted => errorTimer = Null)
    /\ [][~mounted => (triggers' = triggers /\ wire' = wire)]_vars
    /\ [][~fieldMounted => (analytics' = analytics /\ last' = last)]_vars

\* The provider was unmounted, with the field in it, while the idle timeout
\* and the timeout of an error present since 5000 were pending; both
\* deadlines have passed, nothing was exported and nothing was reported.
C22_Witness ==
    /\ ~mounted
    /\ ~fieldMounted
    /\ cancelled = {"idle", "error"}
    /\ lastActivityAt = Null
    /\ renders = 0
    /\ now = IDLE_TIMEOUT + 1
    /\ formError = "Required"
    /\ errorSince = 5000
    /\ triggers = <<>>
    /\ analytics.validationErrorCount = 0
====
